---- MODULE Spec2Model ----
(***************************************************************************)
(* Model of the report service: the in-memory store `reports`, the JWT     *)
(* middleware, and the route handlers POST /reports, PUT /reports/:id,     *)
(* POST /reports/:id/attachment and GET /reports/:id.                      *)
(*                                                                         *)
(* Every route handler is synchronous (no await, no callback between its   *)
(* first and last statement), so under Node's run-to-completion event loop *)
(* one request is one atomic action.                                       *)
(*                                                                         *)
(* Representation choices                                                  *)
(*   - a JSON object is a function from the names of the fields it has;    *)
(*     an optional field that is undefined is a name missing from DOMAIN.  *)
(*   - an ISO timestamp is the integer clock reading it was made from.     *)
(*   - a template string is a record of its literal text and its holes.    *)
(*   - uuidv4() is the next unused natural number.                         *)
(***************************************************************************)
EXTENDS Integers, Sequences, FiniteSets, TLC

VARIABLES
  reports,   \* models/report.ts: the exported array `reports`
  clock,     \* the wall clock read by new Date() / Date.now()
  request,   \* the request handled last (kind "none": none outstanding)
  response,  \* the response produced for it
  before,    \* `reports` as it was when that request reached its route
  calls      \* client -> the PUT it has issued (concurrent clients)

vars == <<reports, clock, request, response, before, calls>>

----------------------------------------------------------------------------
(* Bounds *)

MaxReports == 1      \* reports created
MaxWrites == 2       \* successful PUTs and uploads, over all reports
MaxClock == 1        \* last reading of the clock
MaxClients == 2      \* clients with a PUT in flight at the same time

----------------------------------------------------------------------------
(* Generic helpers for JSON objects *)

Has(o, f) == f \in DOMAIN o

Pick(o, S) == [f \in (S \cap DOMAIN o) |-> o[f]]

With(o, f, v) == (f :> v) @@ o

\* the possible readings of the clock at or after reading t
Now(t) == { u \in t..(t + 1) : u <= MaxClock }

Status == {"draft", "submitted"}
Priority == {"low", "medium", "high"}

----------------------------------------------------------------------------
(* middleware/auth.ts *)

\* An Authorization header as the middleware sees it.
\*   header   - the header is present
\*   token    - authHeader.split(' ')[1] is non-empty
\*   verifies - jwt.verify accepts it (signature good, not expired)
\*   role     - payload.role of a token that verifies
NoHeader == [header |-> FALSE, token |-> FALSE, verifies |-> FALSE, role |-> "none"]
NoToken == [header |-> TRUE, token |-> FALSE, verifies |-> FALSE, role |-> "none"]
BadToken == [header |-> TRUE, token |-> TRUE, verifies |-> FALSE, role |-> "editor"]
ReaderToken == [header |-> TRUE, token |-> TRUE, verifies |-> TRUE, role |-> "reader"]
EditorToken == [header |-> TRUE, token |-> TRUE, verifies |-> TRUE, role |-> "editor"]

Credentials == {NoHeader, NoToken, BadToken, ReaderToken, EditorToken}

\* the credentials tried on the routes that only editors may use: the three
\* ways to fail authenticateJWT differ in the message only, and are all
\* tried on GET
Callers == {NoHeader, ReaderToken, EditorToken}

Msg(t, a) == [text |-> t, args |-> a]

Err(st, c, m) == [status |-> st, body |-> [code |-> c, message |-> m]]

\* no response yet; also what a middleware that calls next() returns
NoResponse == Err(0, "", Msg("", <<>>))

\* authenticateJWT: either a 401 response, or next() with req.user set
authenticateJWT(auth) ==
  IF ~auth.header
    THEN [next |-> FALSE, user |-> "none",
          res |-> Err(401, "UNAUTHORIZED", Msg("Missing Authorization header", <<>>))]
  ELSE IF ~auth.token
    THEN [next |-> FALSE, user |-> "none",
          res |-> Err(401, "UNAUTHORIZED", Msg("Token missing", <<>>))]
  ELSE IF auth.verifies
    THEN [next |-> TRUE, user |-> auth.role,
          res |-> NoResponse]
  ELSE [next |-> FALSE, user |-> "none",
        res |-> Err(401, "UNAUTHORIZED", Msg("Invalid token", <<>>))]

\* variant: any authenticated user passes, the role list is not consulted
authorizeRoleAnyUser(roles, user) ==
  IF user = "none"
    THEN [next |-> FALSE,
          res |-> Err(403, "FORBIDDEN", Msg("Insufficient permissions", <<>>))]
  ELSE [next |-> TRUE, res |-> NoResponse]

\* authorizeRole(roles): either a 403 response, or next()
authorizeRole(roles, user) ==
  IF user = "none" \/ user \notin roles
    THEN [next |-> FALSE,
          res |-> Err(403, "FORBIDDEN", Msg("Insufficient permissions", <<>>))]
  ELSE [next |-> TRUE, res |-> NoResponse]

\* the chain authenticateJWT, authorizeRole(roles): the response that ends
\* the chain, or status 0 when the handler is reached
Guard(auth, roles) ==
  LET a == authenticateJWT(auth) IN
  IF ~a.next THEN a.res ELSE authorizeRole(roles, a.user).res

----------------------------------------------------------------------------
(* The store *)

\* rs.find(r => r.id === id): the index of the first match, 0 for undefined
findIn(rs, id) ==
  IF \E i \in DOMAIN rs : rs[i].id = id
    THEN CHOOSE i \in DOMAIN rs :
           /\ rs[i].id = id
           /\ \A j \in DOMAIN rs : rs[j].id = id => i <= j
  ELSE 0

find(id) == findIn(reports, id)

uuidv4 == Len(reports) + 1

Ids == 1..(MaxReports + 1)

----------------------------------------------------------------------------
(* POST /reports *)

createReportSchema(body) ==
  LET ok == /\ Has(body, "title") /\ body.title # ""
            /\ Has(body, "status") => body.status \in Status
            /\ Has(body, "priority") => body.priority \in Priority
  IN [success |-> ok,
      data |-> IF ok
                 THEN [title |-> body.title,
                       status |-> IF Has(body, "status") THEN body.status ELSE "draft",
                       priority |-> IF Has(body, "priority") THEN body.priority ELSE "medium"]
               ELSE [title |-> "", status |-> "draft", priority |-> "medium"]]

\* bodies tried: valid with one optional field given and one left to its
\* default, title empty, title missing, status outside the enum
CreateBodies ==
  { [title |-> "Q1", priority |-> "low"],
    [title |-> ""],
    [status |-> "draft"],
    [title |-> "Q1", status |-> "archived"] }

\* the middleware chain does not look at the body: one body is enough for
\* the credentials that do not reach the handler
CreateRequests ==
  { [kind |-> "create", auth |-> EditorToken, id |-> 0, body |-> b] :
      b \in CreateBodies }
  \cup { [kind |-> "create", auth |-> a, id |-> 0,
           body |-> [title |-> "Q1", priority |-> "low"]] :
          a \in Callers }

\* variant: the new report's metrics count an entry it does not have
newReportMiscounted(data, id, t1, t2) ==
  [id |-> id,
   title |-> data.title,
   status |-> data.status,
   priority |-> data.priority,
   createdAt |-> t1,
   updatedAt |-> t2,
   version |-> 1,
   entries |-> <<>>,
   metrics |-> [totalEntries |-> 1, highPriorityEntries |-> 0]]

newReport(data, id, t1, t2) ==
  [id |-> id,
   title |-> data.title,
   status |-> data.status,
   priority |-> data.priority,
   createdAt |-> t1,
   updatedAt |-> t2,
   version |-> 1,
   entries |-> <<>>,
   metrics |-> [totalEntries |-> 0, highPriorityEntries |-> 0]]

PostReport(req) ==
  /\ request.kind = "none"
  /\ request' = req
  /\ before' = reports
  /\ LET g == Guard(req.auth, {"editor"})
         parseResult == createReportSchema(req.body)
     IN
     IF g.status # 0
       THEN /\ response' = g
            /\ UNCHANGED <<reports, clock>>
     ELSE IF ~parseResult.success
       THEN /\ response' = Err(400, "VALIDATION_ERROR", Msg("", <<>>))
            /\ UNCHANGED <<reports, clock>>
     ELSE /\ Len(reports) < MaxReports
          /\ \E t1 \in Now(clock) : \E t2 \in Now(t1) :
               LET r == newReport(parseResult.data, uuidv4, t1, t2) IN
               /\ reports' = Append(reports, r)
               /\ clock' = t2
               /\ response' = [status |-> 201, body |-> r]

----------------------------------------------------------------------------
(* PUT /reports/:id *)

\* z.object({title, status, priority, version}), every field optional;
\* version is z.number(): every number passes, 0 included
updateReportSchema(body) ==
  LET ok == /\ Has(body, "title") => body.title # ""
            /\ Has(body, "status") => body.status \in Status
            /\ Has(body, "priority") => body.priority \in Priority
            /\ Has(body, "version") => body.version \in Int
  IN [success |-> ok,
      data |-> Pick(body, {"title", "status", "priority", "version"})]

\* JavaScript truthiness of a number that is not NaN
Truthy(n) == n # 0

\* variant: a patch without a version is a mismatch (version required)
versionMismatchRequired(updates, report) ==
  \/ ~Has(updates, "version")
  \/ Truthy(updates.version) /\ updates.version # report.version

\* variant: only a version newer than the report's is a mismatch
versionMismatchNewer(updates, report) ==
  /\ Has(updates, "version")
  /\ Truthy(updates.version)
  /\ updates.version > report.version

\* `updates.version && updates.version !== report.version`
versionMismatch(updates, report) ==
  /\ Has(updates, "version")
  /\ Truthy(updates.version)
  /\ updates.version # report.version

\* `updates.f !== undefined && updates.f !== report.f`
differs(updates, report, f) == Has(updates, f) /\ updates[f] # report[f]

\* the three if-blocks: the report with the differing fields assigned
assignFields(updates, report) ==
  [f \in DOMAIN report |->
     IF f \in {"title", "status", "priority"} /\ differs(updates, report, f)
       THEN updates[f]
     ELSE report[f]]

\* variant: every patched field is pushed, changed or not
changedFieldsAllPatched(updates, report) ==
  (IF Has(updates, "title") THEN <<"title">> ELSE <<>>)
  \o (IF Has(updates, "status") THEN <<"status">> ELSE <<>>)
  \o (IF Has(updates, "priority") THEN <<"priority">> ELSE <<>>)

\* changedFields after the three if-blocks, in push order
changedFields(updates, report) ==
  (IF differs(updates, report, "title") THEN <<"title">> ELSE <<>>)
  \o (IF differs(updates, report, "status") THEN <<"status">> ELSE <<>>)
  \o (IF differs(updates, report, "priority") THEN <<"priority">> ELSE <<>>)

\* Array.prototype.join: the pieces of the joined string
RECURSIVE join(_, _)
join(xs, sep) ==
  IF Len(xs) = 0 THEN <<>>
  ELSE IF Len(xs) = 1 THEN xs
  ELSE <<Head(xs), sep>> \o join(Tail(xs), sep)

\* variant: the joined string is used as it is, also when empty
orNoneMissing(pieces) == pieces

\* `x || 'none'` for a joined string: the empty string is falsy
orNone(pieces) == IF pieces = <<>> THEN <<"none">> ELSE pieces

\* `Updated fields: ${...} at ${report.updatedAt}`
updateAudit(changed, at) ==
  [text |-> "Updated fields: ", arg |-> orNone(join(changed, ", ")), at |-> at]

\* `report.auditLogs = report.auditLogs || []`
auditLogsOf(report) == IF Has(report, "auditLogs") THEN report.auditLogs ELSE <<>>

attachmentsOf(report) == IF Has(report, "attachments") THEN report.attachments ELSE <<>>

\* variant: the increment is left out
nextVersionStuck(v) == v

nextVersion(v) == v + 1

\* successful PUTs and uploads so far, over all reports (bounds the
\* exploration; the program has no such limit)
RECURSIVE writesDone(_)
writesDone(i) ==
  IF i = 0 THEN 0
  ELSE (reports[i].version - 1) + Len(attachmentsOf(reports[i])) + writesDone(i - 1)

\* lines 266-285: the report after a PUT that passed the version check
updated(updates, report, now) ==
  LET r1 == assignFields(updates, report)
      r2 == [r1 EXCEPT !.updatedAt = now, !.version = nextVersion(@)]
  IN With(r2, "auditLogs",
          Append(auditLogsOf(r2), updateAudit(changedFields(updates, report), now)))

\* patches tried: no field, the title alone and all three fields, without a
\* version; no field and the title with each version; title empty; status
\* outside the enum
PatchVersions == 0..2

UpdateBodies ==
  { Pick([title |-> "Q2", status |-> "submitted", priority |-> "high"], S) :
      S \in { {}, {"title"}, {"title", "status", "priority"} } }
  \cup { Pick([title |-> "Q2", version |-> v], S) :
          v \in PatchVersions, S \in { {"version"}, {"title", "version"} } }
  \cup { [title |-> ""], [status |-> "archived", version |-> 1] }

UpdateRequests ==
  { [kind |-> "update", auth |-> EditorToken, id |-> i, body |-> b] :
      i \in 1..MaxReports, b \in UpdateBodies }
  \cup { [kind |-> "update", auth |-> EditorToken, id |-> MaxReports + 1, body |-> b] :
          b \in { [title |-> "Q2"], [title |-> ""] } }
  \cup { [kind |-> "update", auth |-> a, id |-> 1, body |-> [title |-> "Q2"]] :
          a \in Callers }

\* variant: the fields are assigned before the version is compared
putHandlerAssignFirst(req) ==
  LET parseResult == updateReportSchema(req.body)
      updates == parseResult.data
      i == find(req.id)
  IN
  IF ~parseResult.success
    THEN /\ response' = Err(400, "VALIDATION_ERROR", Msg("", <<>>))
         /\ UNCHANGED <<reports, clock>>
  ELSE IF i = 0
    THEN /\ response' = Err(404, "NOT_FOUND", Msg("Report with id not found", <<req.id>>))
         /\ UNCHANGED <<reports, clock>>
  ELSE IF versionMismatch(updates, reports[i])
    THEN /\ response' = Err(409, "VERSION_CONFLICT",
                            Msg("Report version mismatch. Current version is ",
                                <<reports[i].version>>))
         /\ reports' = [reports EXCEPT ![i] = assignFields(updates, reports[i])]
         /\ UNCHANGED clock
  ELSE /\ writesDone(Len(reports)) < MaxWrites
       /\ \E now \in Now(clock) :
            LET r == updated(updates, reports[i], now) IN
            /\ reports' = [reports EXCEPT ![i] = r]
            /\ clock' = now
            /\ response' = [status |-> 200, body |-> r]

\* the handler proper, after the middleware chain let the request through
putHandler(req) ==
  LET parseResult == updateReportSchema(req.body)
      updates == parseResult.data
      i == find(req.id)
  IN
  IF ~parseResult.success
    THEN /\ response' = Err(400, "VALIDATION_ERROR", Msg("", <<>>))
         /\ UNCHANGED <<reports, clock>>
  ELSE IF i = 0
    THEN /\ response' = Err(404, "NOT_FOUND", Msg("Report with id not found", <<req.id>>))
         /\ UNCHANGED <<reports, clock>>
  ELSE IF versionMismatch(updates, reports[i])
    THEN /\ response' = Err(409, "VERSION_CONFLICT",
                            Msg("Report version mismatch. Current version is ",
                                <<reports[i].version>>))
         /\ UNCHANGED <<reports, clock>>
  ELSE /\ writesDone(Len(reports)) < MaxWrites
       /\ \E now \in Now(clock) :
            LET r == updated(updates, reports[i], now) IN
            /\ reports' = [reports EXCEPT ![i] = r]
            /\ clock' = now
            /\ response' = [status |-> 200, body |-> r]

PutReport(req) ==
  /\ request.kind = "none"
  /\ request' = req
  /\ before' = reports
  /\ LET g == Guard(req.auth, {"editor"}) IN
     IF g.status # 0
       THEN /\ response' = g
            /\ UNCHANGED <<reports, clock>>
     ELSE putHandler(req)

----------------------------------------------------------------------------
(* POST /reports/:id/attachment *)

fileSizeLimit == 5 * 1024 * 1024

allowed == {".pdf", ".png", ".jpg", ".jpeg"}

\* a file name is <<stem, extension>>
extname(name) == name[2]

toLowerCase(e) ==
  CASE e = ".PDF" -> ".pdf"
    [] e = ".PNG" -> ".png"
    [] e = ".EXE" -> ".exe"
    [] OTHER -> e

\* the multipart body: no part named `file`, or the part's metadata
NoFile == [present |-> FALSE, originalname |-> <<"", "">>, mimetype |-> "", size |-> 0]

Parts ==
  { NoFile,
    [present |-> TRUE, originalname |-> <<"scan", ".PDF">>,
     mimetype |-> "application/pdf", size |-> 4096],
    [present |-> TRUE, originalname |-> <<"run", ".exe">>,
     mimetype |-> "application/octet-stream", size |-> 4096],
    [present |-> TRUE, originalname |-> <<"big", ".png">>,
     mimetype |-> "image/png", size |-> fileSizeLimit + 1] }

\* Math.round(Math.random() * 1e6)
RandomSuffixes == {268757}

\* storage.filename: file.fieldname + '-' + Date.now() + '-' + random + ext
diskName(part, t, rnd) ==
  [fieldname |-> "file", time |-> t, random |-> rnd, ext |-> extname(part.originalname)]

\* upload.single('file') and, when it fails, the error middleware of app.ts:
\* status 0 when the handler is reached
upload(part) ==
  IF ~part.present THEN NoResponse
  ELSE IF toLowerCase(extname(part.originalname)) \notin allowed
    THEN Err(500, "SERVER_ERROR", Msg("Invalid file type", <<>>))
  ELSE IF part.size > fileSizeLimit
    THEN Err(400, "UPLOAD_ERROR", Msg("File too large", <<>>))
  ELSE NoResponse

GoodParts == { q \in Parts : q.present /\ upload(q).status = 0 }

\* every id with and without a good file; the rejected files and the other
\* credentials on one id, as neither multer nor the chain looks at the id
AttachRequests ==
  { [kind |-> "attach", auth |-> EditorToken, id |-> i, body |-> b] :
      i \in Ids, b \in GoodParts \cup {NoFile} }
  \cup { [kind |-> "attach", auth |-> EditorToken, id |-> 1, body |-> b] : b \in Parts }
  \cup { [kind |-> "attach", auth |-> a, id |-> 1, body |-> b] :
          a \in Callers, b \in GoodParts }

makeAttachment(part, filename) ==
  [filename |-> filename,
   originalName |-> part.originalname,
   mimetype |-> part.mimetype,
   size |-> part.size,
   url |-> [text |-> "/uploads/", filename |-> filename]]

\* `Uploaded attachment: ${attachment.originalName} at ${new Date().toISOString()}`
uploadAudit(attachment, at) ==
  [text |-> "Uploaded attachment: ", arg |-> attachment.originalName, at |-> at]

\* variant: an upload counts as a new version of the report
attachedBumping(report, attachment, now) ==
  LET r1 == With(report, "attachments", Append(attachmentsOf(report), attachment))
      r2 == With(r1, "auditLogs", Append(auditLogsOf(r1), uploadAudit(attachment, now)))
  IN [r2 EXCEPT !.version = @ + 1]

\* variant: the attachment is pushed without an audit line
attachedUnlogged(report, attachment, now) ==
  With(report, "attachments", Append(attachmentsOf(report), attachment))

\* lines 130-135: the report after the attachment and the audit line are pushed
attached(report, attachment, now) ==
  LET r1 == With(report, "attachments", Append(attachmentsOf(report), attachment))
  IN With(r1, "auditLogs", Append(auditLogsOf(r1), uploadAudit(attachment, now)))

attachHandler(req) ==
  LET i == find(req.id) IN
  IF i = 0
    THEN /\ response' = Err(404, "NOT_FOUND", Msg("Report with id not found", <<req.id>>))
         /\ UNCHANGED <<reports, clock>>
  ELSE IF ~req.body.present
    THEN /\ response' = Err(400, "NO_FILE", Msg("No file uploaded", <<>>))
         /\ UNCHANGED <<reports, clock>>
  ELSE /\ writesDone(Len(reports)) < MaxWrites
       /\ \E t1 \in Now(clock) : \E t2 \in Now(t1) : \E rnd \in RandomSuffixes :
            LET attachment == makeAttachment(req.body, diskName(req.body, t1, rnd)) IN
            /\ reports' = [reports EXCEPT ![i] = attached(reports[i], attachment, t2)]
            /\ clock' = t2
            /\ response' = [status |-> 201,
                            body |-> [message |-> Msg("File uploaded", <<>>),
                                      attachment |-> attachment]]

PostAttachment(req) ==
  /\ request.kind = "none"
  /\ request' = req
  /\ before' = reports
  /\ LET g == Guard(req.auth, {"editor"})
         u == upload(req.body)
     IN
     IF g.status # 0
       THEN /\ response' = g
            /\ UNCHANGED <<reports, clock>>
     ELSE IF u.status # 0
       THEN /\ response' = u
            /\ UNCHANGED <<reports, clock>>
     ELSE attachHandler(req)

----------------------------------------------------------------------------
(* GET /reports/:id *)

\* An entry is [id, content, createdAt, priority]; id, content and createdAt
\* are naturals ordered as the strings they stand for.

isHigh(e) == e.priority = "high"

\* variant: the filter keeps every entry
highPriorityOfAll(entries) == entries

\* entries.filter(e => e.priority === 'high')
highPriorityOf(entries) == SelectSeq(entries, isHigh)

\* variant: the priorities in the order of their names
priorityLexical(p) ==
  CASE p = "high" -> 1
    [] p = "low" -> 2
    [] p = "medium" -> 3

priorityMap(p) ==
  CASE p = "low" -> 1
    [] p = "medium" -> 2
    [] p = "high" -> 3

\* a query parameter is a string; entries_sort is kept as the pieces
\* split('_') cuts it into, include as the pieces split(',') cuts it into
trim(f) ==
  CASE f = " entries" -> "entries"
    [] f = "entries " -> "entries"
    [] OTHER -> f

\* variant: the comparator ignores the order asked for
compareAscending(a, b, field, order) ==
  IF field # "priority" /\ ~Has(a, field) THEN 0
  ELSE LET aValue == IF field = "priority" THEN priorityMap(a.priority) ELSE a[field]
           bValue == IF field = "priority" THEN priorityMap(b.priority) ELSE b[field]
       IN IF aValue < bValue THEN -1
          ELSE IF aValue > bValue THEN 1
          ELSE 0

\* variant: the comparison is ascending only for the order token "asc"
compareUnlessAsc(a, b, field, order) ==
  IF field # "priority" /\ ~Has(a, field) THEN 0
  ELSE LET aValue == IF field = "priority" THEN priorityMap(a.priority) ELSE a[field]
           bValue == IF field = "priority" THEN priorityMap(b.priority) ELSE b[field]
       IN IF aValue < bValue THEN (IF order # "asc" THEN 1 ELSE -1)
          ELSE IF aValue > bValue THEN (IF order # "asc" THEN -1 ELSE 1)
          ELSE 0

\* the comparator of lines 195-206; a field the entries do not have reads
\* as undefined on both sides, and undefined < undefined is false
compare(a, b, field, order) ==
  IF field # "priority" /\ ~Has(a, field) THEN 0
  ELSE LET aValue == IF field = "priority" THEN priorityMap(a.priority) ELSE a[field]
           bValue == IF field = "priority" THEN priorityMap(b.priority) ELSE b[field]
       IN IF aValue < bValue THEN (IF order = "desc" THEN 1 ELSE -1)
          ELSE IF aValue > bValue THEN (IF order = "desc" THEN -1 ELSE 1)
          ELSE 0

\* x put into the sorted xs behind every element that does not sort after it
RECURSIVE insert(_, _, _, _)
insert(xs, x, field, order) ==
  IF xs = <<>> THEN <<x>>
  ELSE IF compare(Head(xs), x, field, order) > 0 THEN <<x>> \o xs
  ELSE <<Head(xs)>> \o insert(Tail(xs), x, field, order)

\* Array.prototype.sort with that comparator (a stable sort)
RECURSIVE sort(_, _, _)
sort(xs, field, order) ==
  IF xs = <<>> THEN <<>>
  ELSE insert(sort(SubSeq(xs, 1, Len(xs) - 1), field, order), xs[Len(xs)], field, order)

\* a numeric query parameter: the text, and what parseInt reads from it
NaN == [nan |-> TRUE, n |-> 0]

parseInt(query, name) ==
  IF Has(query, name) /\ query[name].numeral
    THEN [nan |-> FALSE, n |-> query[name].n]
  ELSE NaN

\* `parseInt(...) || d`: NaN and 0 are falsy
orDefault(p, d) == IF p.nan \/ p.n = 0 THEN d ELSE p.n

max(a, b) == IF a > b THEN a ELSE b

min(a, b) == IF a < b THEN a ELSE b

\* variant: Math.floor in place of Math.ceil
floorDiv(a, b) == a \div b

\* Math.ceil(a / b) for a >= 0, b >= 1
ceilDiv(a, b) == (a + b - 1) \div b

\* variant: the slice stops one element early
sliceShort(xs, start, end) ==
  IF start >= Len(xs) THEN <<>> ELSE SubSeq(xs, start + 1, min(end, Len(xs)) - 1)

\* Array.prototype.slice(start, end) for 0 <= start <= end
slice(xs, start, end) ==
  IF start >= Len(xs) THEN <<>> ELSE SubSeq(xs, start + 1, min(end, Len(xs)))

\* An array variable of the handler: the elements, and whether the array is
\* the one the report holds (so that sorting it in place sorts the report's).

\* variant: `let entries = report.entries`, the report's own array
spreadShared(xs) == [array |-> xs, shared |-> TRUE]

\* `[...report.entries]`: a new array with the same elements
spread(xs) == [array |-> xs, shared |-> FALSE]

\* the largest page size, and the page and size used when none is given
maxSize == 100

defaultPage == 1

defaultSize == 10

\* lines 183-227: the entries and the pagination descriptor put in the
\* result, and (stored) the report's own array after the in-place sort
entriesPipeline(all, query) ==
  LET highPriorityOnly ==
        Has(query, "entries_highPriorityOnly") /\ query.entries_highPriorityOnly = "true"
      copy == spread(all)
      filtered == IF highPriorityOnly THEN highPriorityOf(copy.array) ELSE copy.array
      shared == copy.shared /\ ~highPriorityOnly
      sortParam == IF Has(query, "entries_sort") THEN query.entries_sort ELSE <<"">>
      field == sortParam[1]
      order == IF Len(sortParam) >= 2 THEN sortParam[2] ELSE ""
      entries == IF sortParam # <<"">> THEN sort(filtered, field, order) ELSE filtered
      page == orDefault(parseInt(query, "entries_page"), defaultPage)
      size == orDefault(parseInt(query, "entries_size"), defaultSize)
      validPage == max(page, 1)
      validSize == min(max(size, 1), maxSize)
      totalEntries == Len(entries)
      totalPages == ceilDiv(totalEntries, validSize)
      start == (validPage - 1) * validSize
      end == start + validSize
  IN [entries |-> slice(entries, start, end),
      entries_pagination |-> [page |-> validPage, size |-> validSize,
                              totalPages |-> totalPages, totalEntries |-> totalEntries],
      stored |-> IF shared THEN entries ELSE all]

\* variant: the rate is computed without the guard on totalEntries
compactViewUnguarded(report) ==
  LET totalEntries == Len(report.entries)
      highPriorityEntries == Len(highPriorityOf(report.entries))
  IN [id |-> report.id,
      title |-> report.title,
      status |-> report.status,
      priority |-> report.priority,
      metrics |-> report.metrics,
      entryCount |-> totalEntries,
      highPriorityRate |-> [num |-> highPriorityEntries, den |-> totalEntries]]

\* lines 152-166
compactView(report) ==
  LET totalEntries == Len(report.entries)
      highPriorityEntries == Len(highPriorityOf(report.entries))
      highPriorityRate ==
        IF totalEntries > 0
          THEN [num |-> highPriorityEntries, den |-> totalEntries]
        ELSE [num |-> 0, den |-> 1]
  IN [id |-> report.id,
      title |-> report.title,
      status |-> report.status,
      priority |-> report.priority,
      metrics |-> report.metrics,
      entryCount |-> totalEntries,
      highPriorityRate |-> highPriorityRate]

includesEntries(query) ==
  /\ Has(query, "include")
  /\ \E k \in DOMAIN query.include : trim(query.include[k]) = "entries"

\* lines 169-231
fullView(report, query) ==
  LET result == Pick(report, {"id", "title", "status", "priority", "createdAt",
                              "updatedAt", "version", "metrics"})
      piped == entriesPipeline(report.entries, query)
  IN IF includesEntries(query)
       THEN With(With(result, "entries", piped.entries),
                 "entries_pagination", piped.entries_pagination)
     ELSE result

\* the query strings tried
GetQueries ==
  { Pick([view |-> "compact"], {}),
    [view |-> "compact"],
    [include |-> <<"metrics", " entries">>, entries_highPriorityOnly |-> "true",
     entries_sort |-> <<"priority", "desc">>,
     entries_page |-> [numeral |-> TRUE, n |-> 2],
     entries_size |-> [numeral |-> FALSE, n |-> 0]] }

GetRequests ==
  { [kind |-> "get", auth |-> ReaderToken, id |-> i, body |-> q] :
      i \in 1..MaxReports, q \in GetQueries }
  \cup { [kind |-> "get", auth |-> a, id |-> MaxReports + 1, body |-> [view |-> "compact"]] :
          a \in Credentials }

\* the report after the handler has run: its entries array is the only
\* thing the handler could write to
afterGet(report, query) ==
  IF includesEntries(query)
    THEN [report EXCEPT !.entries = entriesPipeline(report.entries, query).stored]
  ELSE report

GetReport(req) ==
  /\ request.kind = "none"
  /\ request' = req
  /\ before' = reports
  /\ UNCHANGED clock
  /\ LET a == authenticateJWT(req.auth)
         i == find(req.id)
     IN
     IF ~a.next
       THEN response' = a.res /\ UNCHANGED reports
     ELSE IF i = 0
       THEN /\ response' = Err(404, "NOT_FOUND", Msg("Report with id not found", <<req.id>>))
            /\ UNCHANGED reports
     ELSE IF Has(req.body, "view") /\ req.body.view = "compact"
       THEN /\ response' = [status |-> 200, body |-> compactView(reports[i])]
            /\ UNCHANGED reports
     ELSE /\ response' = [status |-> 200, body |-> fullView(reports[i], req.body)]
          /\ reports' = [reports EXCEPT ![i] = afterGet(reports[i], req.body)]

----------------------------------------------------------------------------
(* The server's request cycle *)

NoRequest == [kind |-> "none", auth |-> NoHeader, id |-> 0, body |-> Pick([title |-> ""], {})]

Clients == 1..MaxClients

\* a client that has sent nothing
Idle == [state |-> "idle", req |-> NoRequest, seen |-> 0, observed |-> 0, status |-> 0]

Init ==
  /\ reports = <<>>
  /\ clock = 0
  /\ request = NoRequest
  /\ response = NoResponse
  /\ before = <<>>
  /\ calls = [c \in Clients |-> Idle]

Create == UNCHANGED calls /\ \E req \in CreateRequests : PostReport(req)

Update == UNCHANGED calls /\ \E req \in UpdateRequests : PutReport(req)

Attach == UNCHANGED calls /\ \E req \in AttachRequests : PostAttachment(req)

\* the response has been sent: the next request can be taken
Reply ==
  /\ request.kind # "none"
  /\ request' = NoRequest
  /\ response' = NoResponse
  /\ before' = <<>>
  /\ UNCHANGED <<reports, clock, calls>>

Get == UNCHANGED calls /\ \E req \in GetRequests : GetReport(req)

Next == Create \/ Update \/ Attach \/ Get \/ Reply

Spec == Init /\ [][Next]_vars

----------------------------------------------------------------------------
(* Concurrent clients.  Several clients have a PUT outstanding at the same  *)
(* time; the event loop takes the requests one at a time, in any order, and *)
(* runs the handler of each to completion before it takes the next.         *)

\* the PUT a client sends to report i: a new title, with the version the
\* client has just read or with none
ConcurrentPut(i, version, S) ==
  [kind |-> "update", auth |-> EditorToken, id |-> i,
   body |-> Pick([title |-> "Q2", version |-> version], S)]

\* client c sends a PUT; seen is the version of the report at that moment.
\* Clients are numbered in the order in which they send.
Send(c, i, S) ==
  /\ calls[c].state = "idle"
  /\ \A d \in Clients : d < c => calls[d].state # "idle"
  /\ find(i) # 0
  /\ LET version == reports[find(i)].version IN
     calls' = [calls EXCEPT ![c] = [state |-> "sent",
                                    req |-> ConcurrentPut(i, version, S),
                                    seen |-> version,
                                    observed |-> 0, status |-> 0]]
  /\ UNCHANGED <<reports, clock, request, response, before>>

\* the event loop runs the handler for the PUT of client c
Serve(c) ==
  /\ calls[c].state = "sent"
  /\ PutReport(calls[c].req)
  /\ calls' = [calls EXCEPT ![c] = [@ EXCEPT !.state = "done",
                                               !.observed = reports[find(calls[c].req.id)].version,
                                               !.status = response'.status]]

Issue ==
  \E c \in Clients : \E i \in 1..MaxReports :
    \E S \in { {"title"}, {"title", "version"} } : Send(c, i, S)

Dispatch == \E c \in Clients : Serve(c)

NextConc == Create \/ Issue \/ Dispatch \/ Reply

SpecConc == Init /\ [][NextConc]_vars

----------------------------------------------------------------------------
(* GET over reports that hold entries.  No route of the program appends an  *)
(* entry, so the reports are given: the view projection and the entries     *)
(* pipeline are functions of the report and of the query string, and the    *)
(* reports and query strings are drawn from the sets below.                 *)

MaxEntries == 3      \* length of the short entry collections

\* entry k of a collection: appended k-th, so createdAt grows with k
entryAt(k, priority) == [id |-> k, content |-> 0, createdAt |-> k, priority |-> priority]

\* every collection of at most MaxEntries entries, by the priorities in it
Collections ==
  UNION { { [k \in 1..n |-> entryAt(k, ps[k])] : ps \in [1..n -> Priority] } :
            n \in 0..MaxEntries }

\* a collection of n entries: high, low, medium, high, low, medium, ...
longCollection(n) ==
  [k \in 1..n |->
     entryAt(k, CASE k % 3 = 1 -> "high" [] k % 3 = 2 -> "low" [] OTHER -> "medium")]

\* one collection of more than two default pages, one of more than maxSize
LongCollections == { longCollection(2 * defaultSize + 5), longCollection(maxSize + 1) }

\* Metrics of a collection
metricsOf(entries) ==
  [totalEntries |-> Len(entries), highPriorityEntries |-> Len(highPriorityOf(entries))]

\* a stored report holding the entries, its metrics field as given
storedReport(entries, metrics) ==
  [newReport([title |-> "Q1", status |-> "draft", priority |-> "low"], 1, 0, 0)
     EXCEPT !.entries = entries, !.metrics = metrics]

\* the metrics field is in step with the entries, or still as create wrote
\* it (no code of the program writes the field after create)
StoredReports ==
  { storedReport(es, metricsOf(es)) : es \in Collections \cup LongCollections }
  \cup { storedReport(es, [totalEntries |-> 0, highPriorityEntries |-> 0]) :
           es \in Collections }

numeral(n) == [numeral |-> TRUE, n |-> n]

notNumeral == [numeral |-> FALSE, n |-> 0]

\* query strings for the entries pipeline: every combination of the filter,
\* six sorts (one without an order token, one with a token that is neither
\* asc nor desc), six pages and eight sizes, each parameter also left out
PipelineQueries ==
  { Pick([include |-> <<"entries">>, entries_highPriorityOnly |-> "true",
          entries_sort |-> srt, entries_page |-> page, entries_size |-> size], S) :
      srt \in { <<"priority", "asc">>, <<"priority", "desc">>, <<"createdAt", "desc">>,
                <<"priority">>, <<"priority", "down">> },
      page \in { numeral(-1), numeral(0), numeral(1), numeral(2), notNumeral },
      size \in { numeral(-1), numeral(0), numeral(1), numeral(2),
                 numeral(maxSize), numeral(maxSize + 1), notNumeral },
      S \in { {"include"} \cup T :
                T \in SUBSET {"entries_highPriorityOnly", "entries_sort",
                              "entries_page", "entries_size"} } }

\* the query strings tried on the long collections: unsorted or sorted by
\* priority, filtered or not, pages 1 and 2, default and largest size
LongQueries ==
  { q \in PipelineQueries :
      /\ Has(q, "entries_sort") => q.entries_sort = <<"priority", "asc">>
      /\ Has(q, "entries_page") => q.entries_page \in { numeral(1), numeral(2) }
      /\ Has(q, "entries_size") => q.entries_size \in { numeral(maxSize), numeral(maxSize + 1) }
      /\ Has(q, "entries_sort") => ~Has(q, "entries_size") }

QueriesFor(report) ==
  IF Len(report.entries) > MaxEntries
    THEN LongQueries
  ELSE PipelineQueries \cup { [view |-> "compact"], Pick([view |-> "compact"], {}) }

QueryInit ==
  /\ \E r \in StoredReports : reports = <<r>>
  /\ clock = 0
  /\ request = NoRequest
  /\ response = NoResponse
  /\ before = <<>>
  /\ calls = [c \in Clients |-> Idle]

Query ==
  /\ UNCHANGED calls
  /\ request.kind = "none"
  /\ \E q \in QueriesFor(reports[1]) :
       GetReport([kind |-> "get", auth |-> ReaderToken, id |-> 1, body |-> q])

NextQuery == Query \/ Reply

SpecQuery == QueryInit /\ [][NextQuery]_vars

----------------------------------------------------------------------------
(* Properties.  They speak of the request handled last, of the response to  *)
(* it, and of the store before (`before`) and after (`reports`) it.         *)

Fields == {"title", "status", "priority"}

\* the request handled last passed the chain of an editors-only route
Admitted == Guard(request.auth, {"editor"}).status = 0

\* the report the request handled last names, as an index of `before`
target == findIn(before, request.id)

\* the request handled last was a PUT that got as far as the version check
PutChecked ==
  /\ request.kind = "update"
  /\ Admitted
  /\ updateReportSchema(request.body).success
  /\ target # 0

PutApplied == PutChecked /\ response.status = 200

PutConflict == PutChecked /\ response.status = 409

Uploaded == request.kind = "attach" /\ response.status = 201

\* the audit lines a successful PUT wrote
updateLines(report) ==
  Cardinality({ k \in DOMAIN auditLogsOf(report) :
                  auditLogsOf(report)[k].text = "Updated fields: " })

\* the response body names the version v
carries(body, v) ==
  \/ \E k \in DOMAIN body.message.args : body.message.args[k] = v
  \/ /\ Has(body, "details")
     /\ \E f \in DOMAIN body.details : body.details[f] = v

\* C1: a PUT on an existing report whose patch has a version field that
\* differs from the report's version fails with VersionConflict and changes
\* nothing in the store.
C1_StaleVersionRejected ==
  (PutChecked /\ Has(request.body, "version")
     /\ request.body.version # before[target].version)
  => (response.status = 409 /\ response.body.code = "VERSION_CONFLICT"
      /\ reports = before)

\* C2: a successful PUT raises the version by exactly 1, a PUT that ends in
\* VersionConflict leaves it, and the version of every report is 1 plus the
\* number of successful PUTs it has had (one "Updated fields" audit line each).
C2_VersionCountsUpdates ==
  /\ \A i \in DOMAIN reports : reports[i].version = 1 + updateLines(reports[i])
  /\ PutApplied =>
       /\ reports[target].version = before[target].version + 1
       /\ updateLines(reports[target]) = updateLines(before[target]) + 1
  /\ PutConflict =>
       /\ reports[target].version = before[target].version
       /\ updateLines(reports[target]) = updateLines(before[target])

\* a second successful PUT on a report, taking it from version 2 to 3
C2_Witness == PutApplied /\ before[target].version = 2 /\ reports[target].version = 3

\* the pairs of clients whose PUTs on one report were outstanding together,
\* both with the version the report had before either ran
Racing(c, d) ==
  /\ c # d
  /\ calls[c].state = "done" /\ calls[d].state = "done"
  /\ calls[c].req.id = calls[d].req.id
  /\ Has(calls[c].req.body, "version") /\ Has(calls[d].req.body, "version")
  /\ calls[c].req.body.version = calls[c].seen
  /\ calls[d].req.body.version = calls[d].seen
  /\ calls[c].seen = calls[d].seen

\* no PUT of a third client was applied to the report c and d wrote to
NoThird(c, d) ==
  \A e \in Clients \ {c, d} :
    ~(calls[e].state = "done" /\ calls[e].req.id = calls[c].req.id
        /\ calls[e].status = 200)

\* C3: of two concurrent PUTs on one report that both carry the version v
\* the report had before either ran, at most one succeeds; the one that
\* succeeds saw version v, the other sees a later version (v+1 when no third
\* PUT was applied to the report) and fails with VersionConflict.
C3_AtMostOneWins ==
  \A c, d \in Clients :
    (Racing(c, d) /\ calls[c].status = 200)
    => /\ calls[c].observed = calls[c].seen
       /\ calls[d].status = 409
       /\ calls[d].observed > calls[d].seen
       /\ NoThird(c, d) => calls[d].observed = calls[d].seen + 1

\* two racing PUTs have both been handled: one applied, one in conflict
C3_Witness ==
  \E c, d \in Clients :
    Racing(c, d) /\ calls[c].status = 200 /\ calls[d].status = 409

\* C4: a PUT whose patch has no version field is never answered with
\* VersionConflict; whatever the report's version it is applied: the patched
\* fields are set, the version goes up by 1, one audit line is appended.
C4_NoVersionAlwaysApplied ==
  (PutChecked /\ ~Has(request.body, "version"))
  => /\ response.status = 200
     /\ \A f \in Fields : Has(request.body, f) => reports[target][f] = request.body[f]
     /\ reports[target].version = before[target].version + 1
     /\ Len(auditLogsOf(reports[target])) = Len(auditLogsOf(before[target])) + 1

\* a patch without a version applied to a report that is not at version 1
C4_Witness ==
  /\ PutApplied
  /\ ~Has(request.body, "version")
  /\ Has(request.body, "title")
  /\ before[target].version = 2

\* the patch handled last changes no field of the report it names
NoFieldChanged ==
  \A f \in Fields : Has(request.body, f) => request.body[f] = before[target][f]

\* C5: a PUT that passes the version check and changes no field still raises
\* the version by 1 and appends one audit line, whose field list is "none";
\* title, status and priority stay.
C5_NoChangeStillBumps ==
  (PutApplied /\ NoFieldChanged)
  => LET old == before[target]
         new == reports[target]
         logs == auditLogsOf(new)
     IN /\ new.version = old.version + 1
        /\ Len(logs) = Len(auditLogsOf(old)) + 1
        /\ logs[Len(logs)].text = "Updated fields: "
        /\ logs[Len(logs)].arg = <<"none">>
        /\ \A f \in Fields : new[f] = old[f]

\* a PUT that patches a field with the value it already has
C5_Witness ==
  /\ PutApplied
  /\ NoFieldChanged
  /\ \E f \in Fields : Has(request.body, f)

\* C6 as stated: every successful mutation of a report, a PUT or an upload,
\* raises the report's version by exactly 1.
C6_EveryMutationBumps ==
  (PutApplied \/ (Uploaded /\ target # 0))
  => reports[target].version = before[target].version + 1

\* C6, amended: every successful PUT raises the report's version by exactly
\* 1; a successful upload appends its attachment and its audit line and
\* leaves version and updatedAt as they were.
C6_PutBumpsUploadKeeps ==
  /\ PutApplied => reports[target].version = before[target].version + 1
  /\ Uploaded =>
       /\ target # 0
       /\ reports[target].version = before[target].version
       /\ reports[target].updatedAt = before[target].updatedAt
       /\ Len(attachmentsOf(reports[target])) = Len(attachmentsOf(before[target])) + 1
       /\ Len(auditLogsOf(reports[target])) = Len(auditLogsOf(before[target])) + 1

\* an upload to a report that a PUT has already taken to version 2
C6_Witness == Uploaded /\ before[target].version = 2 /\ reports # before

\* C7: the response to a PUT that fails with VersionConflict carries the
\* version the client submitted and the report's current version.
C7_ConflictCarriesBoth ==
  PutConflict
  => /\ carries(response.body, request.body.version)
     /\ carries(response.body, before[target].version)

\* C8: the report a valid create makes has version 1, no entries, metrics
\* {0, 0} and createdAt = updatedAt, also when the clock advances while the
\* handler runs.
C8_CreatedReportShape ==
  (request.kind = "create" /\ response.status = 201)
  => LET r == reports[Len(reports)] IN
     /\ response.body = r
     /\ r.version = 1
     /\ r.entries = <<>>
     /\ r.metrics = [totalEntries |-> 0, highPriorityEntries |-> 0]
     /\ r.createdAt = r.updatedAt

\* C9: a request that ends in a failure (NotFound, ValidationError,
\* VersionConflict, no file, or any other error response) leaves the store
\* as it was: no report added, no field of any report changed.
C9_FailureLeavesStore ==
  (request.kind # "none" /\ response.status >= 400) => reports = before

\* a PUT whose patch would change the title was refused with VersionConflict
C9_Witness ==
  /\ PutConflict
  /\ Has(request.body, "title")
  /\ request.body.title # before[target].title

Authenticated ==
  request.auth.header /\ request.auth.token /\ request.auth.verifies

\* C10: create, PUT and upload requests with a reader token are answered
\* FORBIDDEN and leave the store as it was; requests without a valid token
\* are answered UNAUTHORIZED and leave the store as it was; only a request
\* with an editor token changes the store.
C10_OnlyEditorsWrite ==
  /\ (request.kind \in {"create", "update", "attach"} /\ request.auth = ReaderToken)
     => (response.status = 403 /\ response.body.code = "FORBIDDEN" /\ reports = before)
  /\ (request.kind # "none" /\ ~Authenticated)
     => (response.status = 401 /\ response.body.code = "UNAUTHORIZED" /\ reports = before)
  /\ (request.kind # "none" /\ reports # before)
     => (Authenticated /\ request.auth.role = "editor")

\* a reader's PUT on an existing report, with a patch that would change it
C10_Witness ==
  /\ request.kind = "update"
  /\ request.auth = ReaderToken
  /\ target # 0
  /\ request.body.title # before[target].title
  /\ response.status = 403

----------------------------------------------------------------------------
(* Properties of the metrics, the views and the entries pipeline *)

\* the counts the stored metrics stand for, taken from the entries
liveMetrics(entries) ==
  [totalEntries |-> Len(entries),
   highPriorityEntries |-> Cardinality({ k \in DOMAIN entries : entries[k].priority = "high" })]

Piped ==
  /\ request.kind = "get"
  /\ response.status = 200
  /\ target # 0
  /\ ~(Has(request.body, "view") /\ request.body.view = "compact")
  /\ includesEntries(request.body)

\* C12: a GET in either view, with any include, filter, sort, page and size,
\* leaves the store as it was: every field of the report, and the order and
\* content of its entries, are the same after the call as before it.
C12_GetLeavesStore == request.kind = "get" => reports = before

\* a GET returned all entries of a report, unfiltered, in an order other than
\* the stored one
C12_Witness ==
  /\ Piped
  /\ Has(request.body, "entries_sort")
  /\ ~Has(request.body, "entries_highPriorityOnly")
  /\ Len(response.body.entries) = Len(before[target].entries)
  /\ response.body.entries # before[target].entries

\* the high-priority entries of a collection, in their order
onlyHigh(all) == SelectSeq(all, isHigh)

\* the collection a query asks for, before it is cut into pages: filtered
\* if the filter is set, then sorted if a sort is given
arranged(all, query) ==
  LET kept == IF Has(query, "entries_highPriorityOnly")
                   /\ query.entries_highPriorityOnly = "true"
                THEN onlyHigh(all) ELSE all
  IN IF Has(query, "entries_sort")
       THEN sort(kept, query.entries_sort[1],
                 IF Len(query.entries_sort) >= 2 THEN query.entries_sort[2] ELSE "")
     ELSE kept

\* what the pipeline returns for page p of the query
pageOf(all, query, p) == entriesPipeline(all, With(query, "entries_page", numeral(p)))

\* the slices of pages 1..p, one after the other
RECURSIVE pagesUpTo(_, _, _)
pagesUpTo(all, query, p) ==
  IF p = 0 THEN <<>>
  ELSE pagesUpTo(all, query, p - 1) \o pageOf(all, query, p).entries

\* C13: for every collection, filter, sort and size, the slices of pages
\* 1..totalPages, in page order, make up the filtered and sorted collection
\* (so their lengths add up to totalEntries), and every page after
\* totalPages is empty.
C13_PagesPartition ==
  Piped =>
    LET all == before[target].entries
        query == request.body
        d == pageOf(all, query, 1).entries_pagination
        whole == pagesUpTo(all, query, d.totalPages)
    IN /\ whole = arranged(all, query)
       /\ Len(whole) = d.totalEntries
       /\ \A p \in 1..(d.totalPages + 2) :
            /\ pageOf(all, query, p).entries_pagination.totalEntries = d.totalEntries
            /\ pageOf(all, query, p).entries_pagination.totalPages = d.totalPages
            /\ p > d.totalPages => pageOf(all, query, p).entries = <<>>

\* three entries asked for in pages of two: a full page and a partial one
C13_Witness ==
  /\ Piped
  /\ response.body.entries_pagination.size = 2
  /\ response.body.entries_pagination.totalEntries = 3
  /\ response.body.entries_pagination.totalPages = 2
  /\ response.body.entries_pagination.page = 2
  /\ Len(response.body.entries) = 1

\* the request asks for page 1 of the largest size, unfiltered and unsorted
RoundTrip ==
  /\ Piped
  /\ ~Has(request.body, "entries_highPriorityOnly")
  /\ ~Has(request.body, "entries_sort")
  /\ Has(request.body, "entries_page") /\ request.body.entries_page = numeral(1)
  /\ Has(request.body, "entries_size") /\ request.body.entries_size = numeral(maxSize)

\* C14 as stated: for every collection, the pipeline with size 100, page 1,
\* no filter and no sort returns the whole collection in its original order.
C14_RoundTripAlways == RoundTrip => response.body.entries = before[target].entries

\* C14, amended: with size 100, page 1, no filter and no sort the pipeline
\* returns the first 100 entries of the collection in their original order:
\* the whole collection when it has at most 100 entries, and never more
\* than 100.
C14_RoundTripUpToMax ==
  RoundTrip =>
    LET all == before[target].entries
        got == response.body.entries
    IN /\ Len(got) = IF Len(all) <= maxSize THEN Len(all) ELSE maxSize
       /\ \A k \in 1..Len(got) : got[k] = all[k]
       /\ Len(all) <= maxSize => got = all

\* the round trip on a collection of more than one default page that fits
\* the largest size
C14_Witness ==
  /\ RoundTrip
  /\ Len(before[target].entries) > defaultSize
  /\ Len(before[target].entries) <= maxSize
  /\ response.body.entries = before[target].entries

\* the place of a priority in low < medium < high
rank(p) == CASE p = "low" -> 1 [] p = "medium" -> 2 [] p = "high" -> 3

\* xs holds the elements of ys, each once (entries of a collection differ
\* in their ids)
isPermutation(xs, ys) ==
  /\ Len(xs) = Len(ys)
  /\ { xs[k] : k \in DOMAIN xs } = { ys[k] : k \in DOMAIN ys }

\* entries of equal priority are in xs in the order they had in the
\* collection, which is the order of their ids
tiesKeepOrder(xs) ==
  \A i, j \in DOMAIN xs :
    (i < j /\ xs[i].priority = xs[j].priority) => xs[i].id < xs[j].id

\* the part of the arranged collection the pagination descriptor d selects
selected(whole, d) ==
  [k \in 1..max(0, min(d.size, Len(whole) - (d.page - 1) * d.size)) |->
     whole[(d.page - 1) * d.size + k]]

sortedBy(srt) == Piped /\ Has(request.body, "entries_sort") /\ request.body.entries_sort = srt

\* C15: sorting by priority ascending orders the entries by low < medium <
\* high (not by the names), gives a permutation of the filtered collection,
\* and is stable: entries of equal priority keep their relative order.
C15_PriorityAscending ==
  sortedBy(<<"priority", "asc">>) =>
    LET all == before[target].entries
        kept == IF Has(request.body, "entries_highPriorityOnly")
                  THEN onlyHigh(all) ELSE all
        whole == pagesUpTo(all, request.body,
                           response.body.entries_pagination.totalPages)
    IN /\ \A i, j \in DOMAIN whole : i < j => rank(whole[i].priority) <= rank(whole[j].priority)
       /\ isPermutation(whole, kept)
       /\ tiesKeepOrder(whole)
       /\ response.body.entries = selected(whole, response.body.entries_pagination)

\* a sort that has to move entries and has a tie to keep: all of high, low,
\* high come back as low, high, high
C15_Witness ==
  /\ sortedBy(<<"priority", "asc">>)
  /\ ~Has(request.body, "entries_highPriorityOnly")
  /\ Len(before[target].entries) = 3
  /\ Len(response.body.entries) = 3
  /\ before[target].entries[1].priority = "high"
  /\ before[target].entries[2].priority = "low"
  /\ before[target].entries[3].priority = "high"
  /\ response.body.entries[1].id = 2

reverse(xs) == [k \in 1..Len(xs) |-> xs[Len(xs) + 1 - k]]

prioritiesOf(xs) == [k \in 1..Len(xs) |-> xs[k].priority]

\* the filtered collection of the request handled last, sorted by priority
byPriority(order) ==
  pagesUpTo(before[target].entries,
            With(request.body, "entries_sort", <<"priority", order>>),
            response.body.entries_pagination.totalPages)

\* C16 as stated: for every collection, sorting by priority with order
\* "desc" gives exactly the reverse of sorting it by priority ascending.
C16_DescIsReverse ==
  sortedBy(<<"priority", "desc">>) => byPriority("desc") = reverse(byPriority("asc"))

\* C16, amended: sorting by priority with order "desc" gives the priorities
\* in the reverse of their ascending order (high, then medium, then low),
\* with entries of equal priority in their original relative order, as in
\* the ascending sort; it is the exact reverse of the ascending result when
\* no two entries have the same priority.
C16_DescReversesRanks ==
  sortedBy(<<"priority", "desc">>) =>
    LET asc == byPriority("asc")
        desc == byPriority("desc")
    IN /\ prioritiesOf(desc) = reverse(prioritiesOf(asc))
       /\ isPermutation(desc, asc)
       /\ tiesKeepOrder(desc)
       /\ tiesKeepOrder(asc)
       /\ (\A i, j \in DOMAIN asc : i # j => asc[i].priority # asc[j].priority)
            => desc = reverse(asc)
       /\ response.body.entries = selected(desc, response.body.entries_pagination)

\* a descending sort over two priorities, one of them twice
C16_Witness ==
  /\ sortedBy(<<"priority", "desc">>)
  /\ ~Has(request.body, "entries_highPriorityOnly")
  /\ Len(response.body.entries) = 3
  /\ before[target].entries[1].priority = "low"
  /\ before[target].entries[2].priority = "high"
  /\ before[target].entries[3].priority = "low"
  /\ response.body.entries[1].id = 2
  /\ response.body.entries[2].id = 1

\* the request handled last was a GET answered with the compact view
Compact ==
  /\ request.kind = "get"
  /\ response.status = 200
  /\ target # 0
  /\ Has(request.body, "view") /\ request.body.view = "compact"

given(query, name) == Has(query, name) /\ query[name].numeral

\* C18: for every integer page p and size s in the query, the page of the
\* pagination descriptor is max(p, 1) and its size is min(max(s, 1), 100);
\* only an absent or non-numeric parameter gives the default, page 1 or
\* size 10; so page >= 1 and 1 <= size <= 100 always.
C18_PageAndSizeClamped ==
  Piped =>
    LET query == request.body
        d == response.body.entries_pagination
    IN /\ d.page = IF given(query, "entries_page")
                     THEN max(query.entries_page.n, 1) ELSE defaultPage
       /\ d.size = IF given(query, "entries_size")
                     THEN min(max(query.entries_size.n, 1), maxSize) ELSE defaultSize
       /\ d.page >= 1
       /\ d.size >= 1 /\ d.size <= maxSize

\* C19: the pipeline filters, then sorts, then cuts the page: with
\* highPriorityOnly set totalEntries is the number of high-priority entries,
\* not of all entries; totalPages is ceil(totalEntries / size); the entries
\* returned are elements (page-1)*size up to (page-1)*size+size of the
\* filtered and sorted collection.
C19_DescriptorOfFiltered ==
  Piped =>
    LET all == before[target].entries
        query == request.body
        d == response.body.entries_pagination
        filterSet == Has(query, "entries_highPriorityOnly")
        kept == IF filterSet THEN onlyHigh(all) ELSE all
        whole == arranged(all, query)
    IN /\ d.totalEntries = Len(kept)
       /\ filterSet =>
            d.totalEntries = Cardinality({ k \in DOMAIN all : all[k].priority = "high" })
       /\ d.totalPages * d.size >= d.totalEntries
       /\ d.totalPages >= 0
       /\ d.totalPages > 0 => (d.totalPages - 1) * d.size < d.totalEntries
       /\ isPermutation(whole, kept)
       /\ response.body.entries = selected(whole, d)
       /\ \A k \in DOMAIN response.body.entries :
            filterSet => response.body.entries[k].priority = "high"

\* the second page of the high-priority entries of a collection that also
\* holds other entries
C19_Witness ==
  /\ Piped
  /\ Has(request.body, "entries_highPriorityOnly")
  /\ Has(request.body, "entries_sort")
  /\ response.body.entries_pagination.totalEntries = 2
  /\ Len(before[target].entries) = 3
  /\ response.body.entries_pagination.page = 2
  /\ response.body.entries_pagination.size = 1
  /\ response.body.entries_pagination.totalPages = 2
  /\ Len(response.body.entries) = 1

\* the fields of title, status, priority that the patch handled last has
\* with a value other than the report's
changedBy(body, report) == { f \in Fields : Has(body, f) /\ body[f] # report[f] }

\* the field names in the pieces of a joined list
namedIn(pieces) == { pieces[k] : k \in DOMAIN pieces } \ {", "}

\* C20: a successful PUT sets exactly the fields among title, status and
\* priority that the patch has with a value other than the current one,
\* leaves every other field (id, createdAt, entries, metrics, attachments,
\* fields patched with their own value, fields not in the patch) as it was,
\* and the audit line it appends names exactly the fields it changed.
C20_ExactlyChangedFields ==
  PutApplied =>
    LET old == before[target]
        new == reports[target]
        changed == changedBy(request.body, old)
        logs == auditLogsOf(new)
        line == logs[Len(logs)]
    IN /\ \A f \in Fields : new[f] = IF f \in changed THEN request.body[f] ELSE old[f]
       /\ DOMAIN new = DOMAIN old \cup {"auditLogs"}
       /\ \A f \in DOMAIN old \ (Fields \cup {"version", "updatedAt", "auditLogs"}) :
            new[f] = old[f]
       /\ SubSeq(logs, 1, Len(logs) - 1) = auditLogsOf(old)
       /\ line.text = "Updated fields: "
       /\ namedIn(line.arg) = IF changed = {} THEN {"none"} ELSE changed
       /\ \A i \in DOMAIN reports : i # target => reports[i] = before[i]

\* a patch of all three fields, one of them with the value it already had
C20_Witness ==
  /\ PutApplied
  /\ \A f \in Fields : Has(request.body, f)
  /\ changedBy(request.body, before[target]) = {"status", "priority"}

----------------------------------------------------------------------------
(* Properties of the audit log and the attachments *)

\* ys is xs with elements added at the end
isPrefix(xs, ys) == Len(xs) <= Len(ys) /\ SubSeq(ys, 1, Len(xs)) = xs

\* C21: auditLogs and attachments only grow at the end: a successful PUT
\* appends one audit line, a successful upload appends one attachment and
\* one audit line, nothing removes or rewrites an earlier element, and a
\* failed request appends nothing; so the length of a report's audit log is
\* the number of its successful PUTs plus the number of its uploads.
C21_AppendOnly ==
  /\ \A i \in DOMAIN reports :
       Len(auditLogsOf(reports[i]))
         = (reports[i].version - 1) + Len(attachmentsOf(reports[i]))
  /\ (request.kind = "create" /\ response.status = 201) =>
       /\ auditLogsOf(reports[Len(reports)]) = <<>>
       /\ attachmentsOf(reports[Len(reports)]) = <<>>
  /\ request.kind # "none" =>
       \A i \in DOMAIN before :
         LET oldLogs == auditLogsOf(before[i])
             newLogs == auditLogsOf(reports[i])
             oldFiles == attachmentsOf(before[i])
             newFiles == attachmentsOf(reports[i])
         IN /\ isPrefix(oldLogs, newLogs)
            /\ isPrefix(oldFiles, newFiles)
            /\ IF PutApplied /\ i = target
                 THEN Len(newLogs) = Len(oldLogs) + 1 /\ newFiles = oldFiles
               ELSE IF Uploaded /\ i = target
                 THEN /\ Len(newLogs) = Len(oldLogs) + 1
                      /\ newFiles = Append(oldFiles, response.body.attachment)
               ELSE newLogs = oldLogs /\ newFiles = oldFiles

\* an upload to a report whose audit log already holds the line of a PUT
C21_Witness ==
  /\ Uploaded
  /\ Len(auditLogsOf(before[target])) = 1
  /\ before[target].version = 2
  /\ Len(auditLogsOf(reports[target])) = 2
  /\ Len(attachmentsOf(reports[target])) = 1

----------------------------------------------------------------------------
(* Properties of the sort direction and of the compact view's rate *)

\* the order token of a sort parameter, "" when it has none
orderToken(srt) == IF Len(srt) >= 2 THEN srt[2] ELSE ""

\* what a sort field compares two entries by
sortKey(e, field) == IF field = "priority" THEN rank(e.priority) ELSE e[field]

\* C22: when a sort field is given, the entries are sorted descending only
\* for the order token "desc"; with no order token, or any other token,
\* they are sorted ascending.
C22_DescendingOnlyForDesc ==
  (Piped /\ Has(request.body, "entries_sort")) =>
    LET srt == request.body.entries_sort
        field == srt[1]
        whole == pagesUpTo(before[target].entries, request.body,
                           response.body.entries_pagination.totalPages)
    IN /\ \A i, j \in DOMAIN whole :
            i < j => IF orderToken(srt) = "desc"
                       THEN sortKey(whole[i], field) >= sortKey(whole[j], field)
                     ELSE sortKey(whole[i], field) <= sortKey(whole[j], field)
       /\ orderToken(srt) # "desc" =>
            whole = pagesUpTo(before[target].entries,
                              With(request.body, "entries_sort", <<field, "asc">>),
                              response.body.entries_pagination.totalPages)
       /\ response.body.entries = selected(whole, response.body.entries_pagination)

\* an order token that is neither asc nor desc: high, low comes back as
\* low, high
C22_Witness ==
  /\ Piped
  /\ Has(request.body, "entries_sort")
  /\ request.body.entries_sort = <<"priority", "down">>
  /\ Len(before[target].entries) = 2
  /\ before[target].entries[1].priority = "high"
  /\ before[target].entries[2].priority = "low"
  /\ Len(response.body.entries) = 2
  /\ response.body.entries[1].priority = "low"

\* C23: in the compact view highPriorityRate is highPriorityEntries /
\* totalEntries, both counted from the report's entries, when the report has
\* entries, and 0 when it has none; nothing is divided by zero.
C23_RateOfLiveEntries ==
  Compact =>
    LET live == liveMetrics(before[target].entries)
        rate == response.body.highPriorityRate
    IN /\ rate.den # 0
       /\ IF live.totalEntries > 0
            THEN rate.num * live.totalEntries = live.highPriorityEntries * rate.den
          ELSE rate.num = 0

\* the compact view of a report with three entries, two of them high
C23_Witness ==
  /\ Compact
  /\ Len(before[target].entries) = 3
  /\ liveMetrics(before[target].entries).highPriorityEntries = 2
  /\ response.body.highPriorityRate.num * 3 = 2 * response.body.highPriorityRate.den

====
